---- MODULE Spec2Model ----
(***************************************************************************)
(* The C++ emitter of mlir/lib/Target/Cpp/TranslateToCpp.cpp as a state    *)
(* machine.  One translation is one behaviour: the emitter walks a module  *)
(* depth first; every step emits one operation (or enters / leaves a       *)
(* module, a function or a structured region).  The module being           *)
(* translated is the input: each step draws the next operation from the    *)
(* small sets below, and a function's signature (its blocks, its           *)
(* arguments and the results its operations define) is drawn when the      *)
(* function is entered, because the declare-at-top pre-pass reads it.      *)
(* The operations drawn afterwards define exactly those results.           *)
(* The last operation of a region, which the loops over a region never     *)
(* reach, is drawn when the region ends.  TypeSpec, at the end, applies    *)
(* emitType alone to one integer type.                                     *)
(***************************************************************************)
EXTENDS Integers, Sequences, FiniteSets, TLC

\* Bounds of the input module.
MaxOps == 3       \* operations of the module, block terminators not counted
MaxVals == 2      \* operation results defined in one function
MaxDepth == 2     \* nesting depth of structured regions in a function
MaxWidth == 65    \* widths of the integer types handed to emitType alone

VARIABLES
  declareVariablesAtTop,  \* CppEmitter::declareVariablesAtTop
  valueMapper,            \* CppEmitter::valueMapper, one entry list per open scope
  blockMapper,            \* CppEmitter::blockMapper, one entry list per open scope
  valueInScopeCount,      \* CppEmitter::valueInScopeCount (a stack, top is last)
  labelInScopeCount,      \* CppEmitter::labelInScopeCount (a stack, top is last)
  os,                     \* the text the last step appended to the output stream
  stack,                  \* the recursion of emitOperation: module, func, for, if
  failed,                 \* a callee returned failure(); the callers are returning
  result,                 \* what translateToCpp returned: "none" while running
  cur,                    \* the function being emitted: its signature and cursor
  emitted,                \* number of operations dispatched so far
  last,                   \* the last step: the operation and how it ended
  calls,                  \* the getOrCreateName calls of the last step
  hist                    \* what the part of the module emitted so far contained

vars == <<declareVariablesAtTop, valueMapper, blockMapper, valueInScopeCount,
          labelInScopeCount, os, stack, failed, result, cur, emitted, last,
          calls, hist>>

\* ------------------------------------------------------------------ helpers
Top(s) == s[Len(s)]
Pop(s) == SubSeq(s, 1, Len(s) - 1)
Range(s) == {s[i] : i \in 1..Len(s)}

RECURSIVE Flat(_)
Flat(ss) == IF ss = <<>> THEN <<>> ELSE Flat(Pop(ss)) \o Top(ss)

\* ------------------------------------------------------------------ the IR
\* Types: an integer type is its width and signedness, other types a kind.
I32 == [k |-> "int", w |-> 32, s |-> "signless"]
UI8 == [k |-> "int", w |-> 8, s |-> "unsigned"]
I7  == [k |-> "int", w |-> 7, s |-> "signless"]
F32 == [k |-> "float", w |-> 32, s |-> "none"]

\* A value is identified by the top-level operation it lives in (fn), what
\* defines it (k) and an index.  k = "lit" is the result of an emitc.literal,
\* "var" of an emitc.variable, "res" of any other operation, "arg" a function
\* argument, "barg" an argument of a non-entry block, "iv" the induction
\* variable of an emitc.for.
Val(fn, k, i, ty) == [fn |-> fn, k |-> k, i |-> i, ty |-> ty]
NoVal == Val(0, "none", 0, I32)
Blk(fn, b) == [fn |-> fn, b |-> b]

\* Attributes: k is the attribute kind, i the integer of an IntegerAttr and
\* the text length of an opaque attribute.
Attr(k, i) == [k |-> k, i |-> i]
NoAttr == Attr("none", 0)

\* An operation.  succ holds the successor blocks, tops / fops the operands
\* passed to the first / second successor, args / targs the optional argument
\* and template-argument lists of an emitc.call (<<NoAttr>> when absent), iv
\* the induction variable of an emitc.for, n the number of blocks of a
\* function or of regions of an emitc.if.
Op(kind, operands, results) ==
  [kind |-> kind, operands |-> operands, results |-> results, attr |-> NoAttr,
   args |-> <<NoAttr>>, targs |-> <<NoAttr>>, succ |-> <<>>, tops |-> <<>>,
   fops |-> <<>>, iv |-> NoVal, n |-> 0]
NoOp == Op("none", <<>>, <<>>)

BinaryKinds == {"emitc.add", "emitc.div", "emitc.mul", "emitc.rem",
                "emitc.sub", "emitc.cmp"}
ConstantKinds == {"emitc.constant", "emitc.variable", "arith.constant",
                  "func.constant"}

\* ------------------------------------------------------- the emitter state
\* The handlers below are functions of an emitter record e: the four members
\* of CppEmitter that change, ok (the LogicalResult so far), ret (the value
\* the last call returned), out (the text written to os by this handler) and
\* log (the getOrCreateName calls made by this handler).  A handler that is
\* handed a failed record returns it unchanged: after a failure() the callers
\* return without doing anything else.
Name(p, n) == [p |-> p, n |-> n]
Emitter(vm, bm, vc, lc) ==
  [vm |-> vm, bm |-> bm, vc |-> vc, lc |-> lc, ok |-> TRUE,
   ret |-> Name("none", 0), out |-> <<>>, log |-> <<>>]

Fail(e) == [e EXCEPT !.ok = FALSE]
Write(e, s) ==
  IF ~e.ok \/ s = "" THEN e ELSE [e EXCEPT !.out = Append(@, Name(s, 0))]
WriteNumber(e, s, n) == IF ~e.ok THEN e ELSE [e EXCEPT !.out = Append(@, Name(s, n))]
WriteRet(e) == IF ~e.ok THEN e ELSE [e EXCEPT !.out = Append(@, e.ret)]

\* llvm::ScopedHashTable::count and ::begin over all open scopes: the newest
\* entry of a key shadows the older ones.
Count(m, key) == \E i \in 1..Len(m) : \E j \in 1..Len(m[i]) : m[i][j].key = key
Newest(f, key) ==
  f[CHOOSE i \in 1..Len(f) :
      f[i].key = key /\ \A j \in (i+1)..Len(f) : f[j].key # key].n
Lookup(m, key) == Newest(Flat(m), key)
Insert(m, key, n) ==
  [m EXCEPT ![Len(m)] = Append(@, [key |-> key, n |-> n])]
Keys(f) == {f[i].key : i \in 1..Len(f)}
Visible(m) == Keys(Flat(m))

hasValueInScope(e, val) == Count(e.vm, val)
hasBlockLabel(e, block) == Count(e.bm, block)

\* CppEmitter::Scope::Scope and ::~Scope.
ScopeEnterFromZero(e) ==
  [e EXCEPT !.vm = Append(@, <<>>), !.bm = Append(@, <<>>),
            !.vc = Append(@, 0), !.lc = Append(@, 0)]
ScopeEnter(e) ==
  [e EXCEPT !.vm = Append(@, <<>>), !.bm = Append(@, <<>>),
            !.vc = Append(@, Top(e.vc)), !.lc = Append(@, Top(e.lc))]
ScopeExitKeepBindings(e) == [e EXCEPT !.vc = Pop(@), !.lc = Pop(@)]
ScopeExitKeepCounters(e) ==
  [e EXCEPT !.vm = Pop(@), !.bm = Pop(@),
            !.vc = [Pop(@) EXCEPT ![Len(@) - 1] = Top(e.vc)],
            !.lc = [Pop(@) EXCEPT ![Len(@) - 1] = Top(e.lc)]]
ScopeExit(e) ==
  [e EXCEPT !.vm = Pop(@), !.bm = Pop(@), !.vc = Pop(@), !.lc = Pop(@)]

\* CppEmitter::getOrCreateName(Value): formatv("v{0}", ++top) is Name("v", top+1).
getOrCreateNameAlwaysMint(e, val) ==
  IF val.k = "lit" THEN [e EXCEPT !.ret = Name("lit", val.i)]
  ELSE [e EXCEPT !.vm = Insert(e.vm, val, Top(e.vc) + 1),
                 !.vc[Len(e.vc)] = Top(e.vc) + 1,
                 !.ret = Name("v", Top(e.vc) + 1)]
getOrCreateName(e, val) ==
  IF val.k = "lit" THEN [e EXCEPT !.ret = Name("lit", val.i)]
  ELSE IF ~Count(e.vm, val)
       THEN [e EXCEPT !.vm = Insert(e.vm, val, Top(e.vc) + 1),
                      !.vc[Len(e.vc)] = Top(e.vc) + 1,
                      !.ret = Name("v", Top(e.vc) + 1)]
       ELSE [e EXCEPT !.ret = Name("v", Lookup(e.vm, val))]

\* CppEmitter::getOrCreateName(Block &).
getOrCreateLabel(e, block) ==
  IF ~Count(e.bm, block)
  THEN [e EXCEPT !.bm = Insert(e.bm, block, Top(e.lc) + 1),
                 !.lc[Len(e.lc)] = Top(e.lc) + 1,
                 !.ret = Name("label", Top(e.lc) + 1)]
  ELSE [e EXCEPT !.ret = Name("label", Lookup(e.bm, block))]

\* One logged call of getOrCreateName, from e to r: whether the key had a
\* binding, the name it had and the name returned, whether the counter moved
\* (counted) and whether anything else of the emitter changed (touched).
Logged(e, r, key, isBlock) ==
  [r EXCEPT !.log = Append(@,
     [key |-> key, blk |-> isBlock,
      had |-> IF isBlock THEN Count(e.bm, key) ELSE Count(e.vm, key),
      before |-> IF isBlock
                 THEN (IF Count(e.bm, key) THEN Lookup(e.bm, key) ELSE 0)
                 ELSE (IF Count(e.vm, key) THEN Lookup(e.vm, key) ELSE 0),
      name |-> r.ret,
      counted |-> (r.vc # e.vc \/ r.lc # e.lc),
      touched |-> (r.vm # e.vm \/ r.bm # e.bm)])]
LogName(e, val) ==
  IF ~e.ok THEN e ELSE Logged(e, getOrCreateName(e, val), val, FALSE)
LogLabel(e, block) ==
  IF ~e.ok THEN e ELSE Logged(e, getOrCreateLabel(e, block), block, TRUE)

\* os << emitter.getOrCreateName(x)
WriteName(e, val) == WriteRet(LogName(e, val))
WriteLabel(e, block) == WriteRet(LogLabel(e, block))

\* if (!hasValueInScope(val)) return failure(); and its three siblings.
RequireValue(e, val) ==
  IF ~e.ok THEN e ELSE IF hasValueInScope(e, val) THEN e ELSE Fail(e)
RequireNoValueSkipped(e, val) == e
RequireNoValue(e, val) ==
  IF ~e.ok THEN e ELSE IF hasValueInScope(e, val) THEN Fail(e) ELSE e
RequireLabel(e, block) ==
  IF ~e.ok THEN e ELSE IF hasBlockLabel(e, block) THEN e ELSE Fail(e)

\* ------------------------------------------------------------ type printer
shouldMapToUnsignedNever(s) == FALSE
shouldMapToUnsigned(s) ==
  CASE s = "signless" -> FALSE
    [] s = "signed" -> FALSE
    [] s = "unsigned" -> TRUE

emitType(e, type) ==
  IF ~e.ok THEN e
  ELSE CASE type.k = "int" ->
              IF type.w = 1 THEN Write(e, "bool")
              ELSE IF type.w \in {8, 16, 32, 64}
                   THEN IF shouldMapToUnsigned(type.s)
                        THEN WriteNumber(e, "uint_t", type.w)
                        ELSE WriteNumber(e, "int_t", type.w)
                   ELSE Fail(e)
         [] type.k = "float" ->
              IF type.w = 32 THEN Write(e, "float")
              ELSE IF type.w = 64 THEN Write(e, "double")
              ELSE Fail(e)
         [] type.k = "index" -> Write(e, "size_t")
         [] type.k = "opaque" -> Write(e, "opaque")
         [] OTHER -> Fail(e)

\* ------------------------------------------------------- attribute printer
\* attr.k: "float", "int" (an IntegerAttr of integer type), "index" (an
\* IntegerAttr of index type), "opaque" (attr.i is the length of its text),
\* "symref" (attr.i is the number of nested references); anything else has
\* no printer.
emitAttribute(e, attr) ==
  IF ~e.ok THEN e
  ELSE CASE attr.k = "float" -> Write(e, "float-literal")
         [] attr.k = "int" -> WriteNumber(e, "int-literal", attr.i)
         [] attr.k = "index" -> WriteNumber(e, "int-literal", attr.i)
         [] attr.k = "opaque" -> WriteNumber(e, "opaque-text", attr.i)
         [] attr.k = "symref" -> IF attr.i > 1 THEN Fail(e) ELSE Write(e, "symbol")
         [] OTHER -> Fail(e)

\* ------------------------------------------------------- shared emitters
\* The lambda of CppEmitter::emitOperands.
emitOperandName(e, val) ==
  IF ~e.ok THEN e
  ELSE IF val.k # "lit" /\ ~hasValueInScope(e, val) THEN Fail(e)
  ELSE WriteName(e, val)

emitVariableAssignment(e, res) ==
  Write(WriteName(RequireValue(e, res), res), " = ")

emitVariableDeclarationUnchecked(e, res, trailingSemicolon) ==
  Write(WriteName(Write(emitType(e, res.ty), " "), res),
        IF trailingSemicolon THEN ";\n" ELSE "")
emitVariableDeclaration(e, res, trailingSemicolon) ==
  Write(WriteName(Write(emitType(RequireNoValue(e, res), res.ty), " "), res),
        IF trailingSemicolon THEN ";\n" ELSE "")

\* The emitArgs lambda of printOperation(emitc::CallOp); it reads the
\* operation's operands, which each attribute of the lists is paired with.
emitArgsAsAttribute(e, pair) == emitAttribute(e, pair.attr)
emitArgs(e, pair) ==
  IF ~e.ok THEN e
  ELSE IF pair.attr.k = "index"
       THEN IF pair.attr.i < 0 \/ pair.attr.i >= Len(pair.operands) THEN Fail(e)
            ELSE WriteName(RequireValue(e, pair.operands[pair.attr.i + 1]),
                           pair.operands[pair.attr.i + 1])
       ELSE emitAttribute(e, pair.attr)

\* The lambdas and loop bodies of printOperation(func::FuncOp).
declareArgument(e, arg) == WriteName(Write(emitType(e, arg.ty), " "), arg)
declareBlockArgument(e, arg) ==
  Write(WriteName(Write(emitType(RequireNoValue(e, arg), arg.ty), " "), arg), ";\n")

\* The functor an interleave or a loop applies to each element.
eachFn(fn, e, x) ==
  CASE fn = "emitType" -> emitType(e, x)
    [] fn = "emitOperandName" -> emitOperandName(e, x)
    [] fn = "emitArgs" -> emitArgs(e, x)
    [] fn = "declareResult" -> emitVariableDeclaration(e, x, TRUE)
    [] fn = "resultName" -> WriteName(e, x)
    [] fn = "declareArgument" -> declareArgument(e, x)
    [] fn = "createLabel" -> LogLabel(e, x)
    [] fn = "declareBlockArgument" -> declareBlockArgument(e, x)

\* interleaveWithError: eachFn on every element in order, stopping at the
\* first failure; the separator is written between two elements.
RECURSIVE interleaveFrom(_, _, _, _, _)
interleaveFrom(e, c, i, fn, sep) ==
  IF i > Len(c) \/ ~e.ok THEN e
  ELSE interleaveFrom(eachFn(fn, IF i > 1 THEN Write(e, sep) ELSE e, c[i]),
                      c, i + 1, fn, sep)
interleaveWithError(e, c, fn, sep) == interleaveFrom(e, c, 1, fn, sep)
interleaveCommaWithError(e, c, fn) == interleaveWithError(e, c, fn, ", ")

emitTupleType(e, types) ==
  Write(interleaveCommaWithError(Write(e, "std::tuple<"), types, "emitType"), ">")

emitTypes(e, types) ==
  CASE Len(types) = 0 -> Write(e, "void")
    [] Len(types) = 1 -> emitType(e, types[1])
    [] OTHER -> emitTupleType(e, types)

emitOperands(e, op) == interleaveCommaWithError(e, op.operands, "emitOperandName")

\* The operations modelled here carry no discardable attributes, so the
\* attribute part of emitOperandsAndAttributes writes nothing.
emitOperandsAndAttributes(e, op) == emitOperands(e, op)

emitAssignPrefixTieOnly(e, op) ==
  CASE Len(op.results) = 0 -> e
    [] Len(op.results) = 1 ->
         IF declareVariablesAtTop
         THEN emitVariableAssignment(e, op.results[1])
         ELSE Write(emitVariableDeclaration(e, op.results[1], FALSE), " = ")
    [] OTHER ->
         Write(interleaveCommaWithError(Write(e, "std::tie("), op.results,
                                        "resultName"),
               ") = ")
emitAssignPrefix(e, op) ==
  CASE Len(op.results) = 0 -> e
    [] Len(op.results) = 1 ->
         IF declareVariablesAtTop
         THEN emitVariableAssignment(e, op.results[1])
         ELSE Write(emitVariableDeclaration(e, op.results[1], FALSE), " = ")
    [] OTHER ->
         Write(interleaveCommaWithError(
                 Write(IF ~declareVariablesAtTop
                       THEN interleaveWithError(e, op.results, "declareResult", "")
                       ELSE e,
                       "std::tie("),
                 op.results, "resultName"),
               ") = ")

emitLabel(e, block) == Write(WriteLabel(RequireLabel(e, block), block), ":\n")

\* ------------------------------------------------- per-operation emitters
\* printConstantOp; op.attr is the value attribute.
EmptyOpaqueNever(attr) == FALSE
EmptyOpaque(attr) == attr.k = "opaque" /\ attr.i = 0
printConstantOp(e, op) ==
  IF declareVariablesAtTop
  THEN IF EmptyOpaque(op.attr) THEN e
       ELSE emitAttribute(emitVariableAssignment(e, op.results[1]), op.attr)
  ELSE IF EmptyOpaque(op.attr) THEN emitVariableDeclaration(e, op.results[1], FALSE)
       ELSE emitAttribute(emitAssignPrefix(e, op), op.attr)

\* printOperation(emitc::AssignOp): operands are <<var, value>>.
printAssignOp(e, op) ==
  WriteName(emitVariableAssignment(e, op.operands[1]), op.operands[2])

printBinaryOperation(e, op) ==
  WriteName(Write(WriteName(emitAssignPrefix(e, op), op.operands[1]), " op "),
            op.operands[2])

\* The loop over llvm::zip(operands, successor arguments): one assignment per
\* pair, "argument = operand;".
RECURSIVE assignBlockArguments(_, _, _, _)
assignBlockArguments(e, operands, arguments, i) ==
  IF i > Len(operands) \/ i > Len(arguments) THEN e
  ELSE assignBlockArguments(
         Write(WriteName(Write(WriteName(e, arguments[i]), " = "), operands[i]),
               ";\n"),
         operands, arguments, i + 1)

\* The arguments of a block: block b of function fn has nargs arguments.
BlockArguments(fn, b, nargs) == [j \in 1..nargs |-> Val(fn, "barg", 10 * b + j, I32)]
SuccArguments(b) == BlockArguments(cur.fn, b, cur.sig.cfg[b].nargs)

printBranchOp(e, op) ==
  WriteLabel(
    RequireLabel(
      Write(assignBlockArguments(e, op.tops, SuccArguments(op.succ[1]), 1), "goto "),
      Blk(cur.fn, op.succ[1])),
    Blk(cur.fn, op.succ[1]))

\* One arm of printOperation(cf::CondBranchOp), up to the name of the label.
branchArm(e, operands, successor) ==
  WriteLabel(
    RequireLabel(
      Write(assignBlockArguments(e, operands, SuccArguments(successor), 1), "goto "),
      Blk(cur.fn, successor)),
    Blk(cur.fn, successor))
printCondBranchOp(e, op) ==
  Write(Write(
    branchArm(
      Write(Write(
        branchArm(Write(WriteName(Write(e, "if ("), op.operands[1]), ") {\n"),
                  op.tops, op.succ[1]),
        ";\n"), "} else {\n"),
      op.fops, op.succ[2]),
    ";\n"), "}")

\* printOperation(func::CallOp)
printFuncCallOp(e, op) ==
  Write(emitOperands(Write(emitAssignPrefix(e, op), "callee("), op), ")")

\* printOperation(emitc::CallOp).
WithOperands(attrs, operands) ==
  [i \in 1..Len(attrs) |-> [attr |-> attrs[i], operands |-> operands]]
templateArgs(e, op) ==
  IF op.targs # <<NoAttr>>
  THEN Write(interleaveCommaWithError(Write(e, "<"),
                                      WithOperands(op.targs, op.operands), "emitArgs"),
             ">")
  ELSE e
emittedArgs(e, op) ==
  IF op.args # <<NoAttr>>
  THEN interleaveCommaWithError(e, WithOperands(op.args, op.operands), "emitArgs")
  ELSE emitOperands(e, op)
printEmitCCallOp(e, op) ==
  Write(emittedArgs(Write(templateArgs(Write(emitAssignPrefix(e, op), "callee"), op),
                          "("),
                    op),
        ")")

\* printOperation(emitc::ApplyOp)
printApplyOp(e, op) ==
  WriteName(Write(emitAssignPrefix(e, op), "applicable-operator"), op.operands[1])

\* printOperation(emitc::CastOp)
printCastOp(e, op) ==
  WriteName(Write(emitType(Write(emitAssignPrefix(e, op), "("), op.results[1].ty),
                  ") "),
            op.operands[1])

\* printOperation(emitc::IncludeOp)
printIncludeOp(e, op) == Write(e, "#include ")

\* printOperation(func::ReturnOp)
printReturnOp(e, op) ==
  CASE Len(op.operands) = 0 -> Write(e, "return")
    [] Len(op.operands) = 1 ->
         RequireValue(WriteName(Write(Write(e, "return"), " "), op.operands[1]),
                      op.operands[1])
    [] OTHER ->
         Write(emitOperandsAndAttributes(
                 Write(Write(e, "return"), " std::make_tuple("), op),
               ")")

\* The head of printOperation(emitc::ForOp), up to the body: operands are
\* <<lower bound, upper bound, step>>.
forClause(e, sep, iv, rel, bound) ==
  WriteName(Write(WriteName(Write(e, sep), iv), rel), bound)
printForOpHead(e, op) ==
  Write(forClause(
          forClause(
            forClause(emitType(Write(e, "for ("), op.iv.ty),
                      " ", op.iv, " = ", op.operands[1]),
            "; ", op.iv, " < ", op.operands[2]),
          "; ", op.iv, " += ", op.operands[3]),
        ") {\n")

\* The head of printOperation(emitc::IfOp), up to the then region.
printIfOpHead(e, op) == Write(emitOperands(Write(e, "if ("), op), ") {\n")

\* The TypeSwitch of CppEmitter::emitOperation; a module or a function is
\* entered by the actions below, the default case has no printer.
printOperation(e, op) ==
  CASE op.kind = "cf.br" -> printBranchOp(e, op)
    [] op.kind = "cf.cond_br" -> printCondBranchOp(e, op)
    [] op.kind \in BinaryKinds -> printBinaryOperation(e, op)
    [] op.kind = "emitc.apply" -> printApplyOp(e, op)
    [] op.kind = "emitc.assign" -> printAssignOp(e, op)
    [] op.kind = "emitc.call" -> printEmitCCallOp(e, op)
    [] op.kind = "emitc.cast" -> printCastOp(e, op)
    [] op.kind = "emitc.include" -> printIncludeOp(e, op)
    [] op.kind \in ConstantKinds -> printConstantOp(e, op)
    [] op.kind = "func.call" -> printFuncCallOp(e, op)
    [] op.kind = "func.return" -> printReturnOp(e, op)
    [] op.kind = "emitc.for" -> printForOpHead(e, op)
    [] op.kind = "emitc.if" -> printIfOpHead(e, op)
    [] op.kind = "emitc.literal" -> e
    [] OTHER -> Fail(e)

\* The end of CppEmitter::emitOperation, after the printer returned.
emitOperationTail(status, op, trailingSemicolon) ==
  IF ~status.ok THEN status
  ELSE IF op.kind = "emitc.literal" THEN status
  ELSE Write(status, IF trailingSemicolon THEN ";\n" ELSE "\n")

emitOperation(e, op, trailingSemicolon) ==
  emitOperationTail(printOperation(e, op), op, trailingSemicolon)

\* ------------------------------------------------------------- the inputs
\* A block of a function body: its terminator, the successors of the
\* terminator and the number of block arguments.
CfgBlock(term, succ, nargs) == [term |-> term, succ |-> succ, nargs |-> nargs]
SingleBlock == <<CfgBlock("func.return", <<>>, 0)>>
Cfgs ==
  { SingleBlock,
    <<CfgBlock("cf.br", <<2>>, 0), CfgBlock("func.return", <<>>, 1)>>,
    <<CfgBlock("func.return", <<>>, 0), CfgBlock("func.return", <<>>, 0)>>,
    <<CfgBlock("cf.cond_br", <<2, 3>>, 0), CfgBlock("cf.br", <<3>>, 0),
      CfgBlock("func.return", <<>>, 1)>>,
    <<CfgBlock("cf.br", <<2>>, 0), CfgBlock("cf.cond_br", <<2, 3>>, 2),
      CfgBlock("func.return", <<>>, 0)>> }

\* What defines a result, in walk order: an emitc.literal ("lit"), an
\* emitc.variable ("var") or any other operation ("res"), and its type.
ResDesc(k, ty) == [k |-> k, ty |-> ty]
Res == ResDesc("res", I32)
ResDescs == {ResDesc("lit", I32), ResDesc("var", I32), Res, ResDesc("res", I7)}
ResLayouts ==
  { r \in UNION {[1..n -> ResDescs] : n \in 0..MaxVals} :
      \A i \in 2..Len(r) : r[i] = Res }

\* A function: argument types, result types, blocks, and the results its
\* operations define.
Sig(args, ret, cfg, res) == [args |-> args, ret |-> ret, cfg |-> cfg, res |-> res]
NoSig == Sig(<<>>, <<>>, SingleBlock, <<>>)
Sigs ==
  { Sig(<<I32>>, <<I32>>, SingleBlock, r) : r \in ResLayouts }
  \cup { Sig(<<I32>>, <<>>, c, r) : c \in Cfgs \ {SingleBlock}, r \in {<<>>, <<Res>>} }
  \cup { Sig(a, <<>>, SingleBlock, <<>>) : a \in {<<>>, <<UI8, F32>>, <<I7>>} }
  \cup { Sig(<<I32>>, t, SingleBlock, <<>>) : t \in {<<I32, F32>>, <<I7>>, <<I32, I7>>} }

\* The function being emitted: fn identifies it, block is the block whose
\* operations are being emitted (label: its label comes next), nres the
\* number of results defined by the operations dispatched so far, nfor the
\* number of loops entered, lines the label lines written so far into the
\* text of the function, gotos the labels its goto statements name.
Cursor(fn, sig) ==
  [fn |-> fn, sig |-> sig, block |-> 1, label |-> FALSE, nres |-> 0, nfor |-> 0,
   lines |-> <<>>, gotos |-> {}]
NoCur == Cursor(0, NoSig)

ResValOf(fn, sig, i) == Val(fn, sig.res[i].k, i, sig.res[i].ty)
ArgValOf(fn, sig, i) == Val(fn, "arg", i, sig.args[i])
ResVal(i) == ResValOf(cur.fn, cur.sig, i)
ArgVal(i) == ArgValOf(cur.fn, cur.sig, i)
Arguments(fn, sig) == [i \in 1..Len(sig.args) |-> ArgValOf(fn, sig, i)]
Results(fn, sig) == [i \in 1..Len(sig.res) |-> ResValOf(fn, sig, i)]
InductionVar(n) == Val(cur.fn, "iv", n, I32)

\* The arguments of every block but the entry block, in block order.
AllBlockArguments(fn, sig) ==
  Flat([b \in 1..(Len(sig.cfg) - 1) |->
               BlockArguments(fn, b + 1, sig.cfg[b + 1].nargs)])

\* The values an operation of the current function may name as operands:
\* the function's arguments, every result of the function (defined yet or
\* not), the arguments of its blocks and the induction variables of the
\* loops around the operation.
InLoop == Top(stack).k = "for"
EnclosingIvs ==
  {stack[i].op.iv : i \in {j \in 1..Len(stack) : stack[j].k = "for"}}
Operands ==
  Range(Arguments(cur.fn, cur.sig)) \cup Range(Results(cur.fn, cur.sig))
    \cup Range(AllBlockArguments(cur.fn, cur.sig))
    \cup EnclosingIvs
Variables == {v \in Range(Results(cur.fn, cur.sig)) : v.k = "var"}
OperandSeqs(n) == UNION {[1..m -> Operands] : m \in 0..n}

\* The next n results are defined by an operation of one of the kinds.
CanDefine(n, kinds) ==
  /\ cur.nres + n <= Len(cur.sig.res)
  /\ \A i \in 1..n : cur.sig.res[cur.nres + i].k \in kinds
NextResults(n) == [i \in 1..n |-> ResVal(cur.nres + i)]

\* ------------------------------------------------ what the module contained
\* Every operand an operation carries, and the operands its printer names:
\* an emitc.call with an args attribute names only the operands its index
\* attributes select.
AllOperands(op) == Range(op.operands) \cup Range(op.tops) \cup Range(op.fops)
Selected(attrs, operands) ==
  {operands[attrs[i].i + 1] :
     i \in {j \in 1..Len(attrs) :
              attrs[j].k = "index" /\ attrs[j].i >= 0 /\ attrs[j].i < Len(operands)}}
PrintedOperands(op) ==
  IF op.kind = "emitc.call"
  THEN Selected(op.targs, op.operands)
         \cup (IF op.args # <<NoAttr>> THEN Selected(op.args, op.operands)
               ELSE Range(op.operands))
  ELSE AllOperands(op)

\* The value is a non-literal result whose defining operation comes later.
DefinedLater(op, v) ==
  v.k \in {"var", "res"} /\ v.i > cur.nres + Len(op.results)
UsedBeforeDef(op) == \E v \in AllOperands(op) : DefinedLater(op, v)
PrintedBeforeDef(op) == \E v \in PrintedOperands(op) : DefinedLater(op, v)

\* The value is defined where the operation stands: an argument of the
\* function, a result of an earlier operation, an argument of the block the
\* operation is in, the induction variable of the loop around it.
DefinedBefore(v) ==
  \/ v.k = "arg"
  \/ v.k \in {"lit", "var", "res"} /\ v.i <= cur.nres
  \/ v.k = "barg" /\ v.i \div 10 = cur.block
  \/ v.k = "iv" /\ v \in EnclosingIvs

SupportedType(ty) ==
  \/ ty.k = "int" /\ ty.w \in {1, 8, 16, 32, 64}
  \/ ty.k = "float" /\ ty.w \in {32, 64}
  \/ ty.k \in {"index", "opaque"}
SupportedAttr(a) ==
  \/ a.k \in {"float", "int", "index", "opaque"}
  \/ a.k = "symref" /\ a.i <= 1
  \/ a = NoAttr
IndexInRange(a, operands) == a.k = "index" => (a.i >= 0 /\ a.i < Len(operands))
KnownKinds ==
  BinaryKinds \cup ConstantKinds \cup
  {"cf.br", "cf.cond_br", "emitc.apply", "emitc.assign", "emitc.call",
   "emitc.cast", "emitc.include", "func.call", "func.return", "emitc.for",
   "emitc.if", "emitc.literal", "func.func"}

\* The operation is of a supported kind with supported types and attributes
\* and every operand is defined before it; terminator says whether it ends
\* its block.
LegalOp(op, terminator) ==
  /\ op.kind \in KnownKinds
  /\ \A v \in AllOperands(op) : DefinedBefore(v)
  /\ \A i \in 1..Len(op.results) : SupportedType(op.results[i].ty)
  /\ (op.kind \in ConstantKinds => SupportedAttr(op.attr))
  /\ \A a \in Range(op.args) \cup Range(op.targs) :
       SupportedAttr(a) /\ IndexInRange(a, op.operands)
  /\ (op.kind \in {"func.return", "cf.br", "cf.cond_br"}) = terminator
LegalSig(sig) ==
  /\ \A i \in 1..Len(sig.args) : SupportedType(sig.args[i])
  /\ \A i \in 1..Len(sig.ret) : SupportedType(sig.ret[i])
  /\ \A i \in 1..Len(sig.res) : SupportedType(sig.res[i].ty)
  /\ (Len(sig.cfg) > 1 => declareVariablesAtTop)

Saw(op, terminator) ==
  [ubd |-> hist.ubd \/ UsedBeforeDef(op),
   pbd |-> hist.pbd \/ PrintedBeforeDef(op),
   legal |-> hist.legal /\ LegalOp(op, terminator),
   unsupported |-> hist.unsupported \/ op.kind \notin KnownKinds]

\* The last operation of the region of a loop or of a conditional: the
\* emitc.yield the region is expected to end with, or an operation of another
\* kind.
RegionLastKinds == {"emitc.yield", "test.op"}
SawLast(kind) ==
  [hist EXCEPT !.legal = @ /\ kind = "emitc.yield",
               !.unsupported = @ \/ kind # "emitc.yield"]

\* ------------------------------------------------- the recursion and a step
\* What is visible of the emitter: the bindings and the depth of the stacks.
Bindings(m) == {[key |-> k, n |-> Lookup(m, k)] : k \in Visible(m)}
Snap(e) ==
  [values |-> Bindings(e.vm), labels |-> Bindings(e.bm),
   vdepth |-> Len(e.vc), ldepth |-> Len(e.lc)]
NoSnap == [values |-> {}, labels |-> {}, vdepth |-> 0, ldepth |-> 0]

\* One activation of a printOperation that emits nested operations: the
\* operation, the trailingSemicolon it was called with, the number of results
\* defined before it (base), the emitter as it was seen before it (snap) and,
\* for an emitc.if, the region being emitted.
Frame(k, op, ts, base, snap) ==
  [k |-> k, op |-> op, ts |-> ts, base |-> base, snap |-> snap, part |-> "then"]

\* The emitter as the variables hold it, and as a callee's failure left it.
E == Emitter(valueMapper, blockMapper, valueInScopeCount, labelInScopeCount)
StatusForgotten == E
Status == IF failed THEN Fail(E) ELSE E

NoLast ==
  [act |-> "none", op |-> NoOp, ok |-> TRUE, bound |-> {}, snap |-> NoSnap,
   body |-> {}]

\* The step act on op ended with r: the emitter's members, the text written,
\* the calls made, the operands and results that had a binding before the
\* step, and for a returning printer the emitter as it was before the printer
\* began (snap) and the values that were defined or bound inside it (body).
Commit(r, act, op, snap, body) ==
  /\ valueMapper' = r.vm
  /\ blockMapper' = r.bm
  /\ valueInScopeCount' = r.vc
  /\ labelInScopeCount' = r.lc
  /\ os' = r.out
  /\ calls' = r.log
  /\ failed' = ~r.ok
  /\ last' = [act |-> act, op |-> op, ok |-> r.ok,
              bound |-> {v \in AllOperands(op) \cup Range(op.results) :
                           Count(valueMapper, v)},
              snap |-> snap, body |-> body]
  /\ UNCHANGED declareVariablesAtTop

Init ==
  /\ declareVariablesAtTop \in BOOLEAN
  /\ valueMapper = <<>>
  /\ blockMapper = <<>>
  /\ valueInScopeCount = <<0>>
  /\ labelInScopeCount = <<0>>
  /\ os = <<>>
  /\ stack = <<>>
  /\ failed = FALSE
  /\ result = "none"
  /\ cur = NoCur
  /\ emitted = 0
  /\ last = NoLast
  /\ calls = <<>>
  /\ hist = [ubd |-> FALSE, pbd |-> FALSE, legal |-> TRUE, unsupported |-> FALSE]

\* ---------------------------------------------------------------- the module
ModuleOp == Op("builtin.module", <<>>, <<>>)

\* translateToCpp on a module: emitOperation enters printOperation(ModuleOp),
\* which opens its Scope.
translateToCpp ==
  /\ result = "none"
  /\ stack = <<>>
  /\ Commit(ScopeEnter(E), "translateToCpp", ModuleOp, NoSnap, {})
  /\ stack' = <<Frame("module", ModuleOp, FALSE, 0, Snap(E))>>
  /\ UNCHANGED <<result, cur, emitted, hist>>

AtModule == stack # <<>> /\ Top(stack).k = "module" /\ ~failed /\ emitted < MaxOps

\* The operations of the module other than functions.
TopLevelOps ==
  { [Op("emitc.constant", <<>>, <<Val(emitted + 1, "res", 1, I32)>>)
       EXCEPT !.attr = Attr("int", 0)],
    Op("emitc.include", <<>>, <<>>),
    Op("test.op", <<>>, <<>>) }

emitTopLevelOperation ==
  /\ AtModule
  /\ \E op \in TopLevelOps :
       /\ Commit(emitOperation(E, op, FALSE), "emitOperation", op, NoSnap, {})
       /\ hist' = [hist EXCEPT !.legal = @ /\ LegalOp(op, FALSE),
                                !.unsupported = @ \/ op.kind \notin KnownKinds]
  /\ emitted' = emitted + 1
  /\ UNCHANGED <<stack, result, cur>>

\* printOperation(ModuleOp) returns, after its last operation or after a
\* failure: ~Scope runs, emitOperation ends and translateToCpp returns.
printModuleOpReturn ==
  /\ stack # <<>>
  /\ Top(stack).k = "module"
  /\ Commit(emitOperationTail(ScopeExit(Status), ModuleOp, FALSE),
            "printModuleOpReturn", ModuleOp, Top(stack).snap, {})
  /\ result' = IF failed THEN "failure" ELSE "success"
  /\ stack' = Pop(stack)
  /\ UNCHANGED <<cur, emitted, hist>>

\* -------------------------------------------------------------- a function
FuncOp(sig) == [Op("func.func", <<>>, <<>>) EXCEPT !.n = Len(sig.cfg)]

NotLiteral(vals) == SelectSeq(vals, LAMBDA v : v.k # "lit")
BlocksEntryOnly(fn, sig) == <<Blk(fn, 1)>>
Blocks(fn, sig) == [b \in 1..Len(sig.cfg) |-> Blk(fn, b)]

\* printOperation(func::FuncOp) from the construction of its Scope to the
\* loop over the blocks: the signature, the declarations of the pre-pass, the
\* labels and the declarations of the block arguments.
printFuncOpSignature(e, fn, sig) ==
  Write(interleaveCommaWithError(
          Write(Write(emitTypes(e, sig.ret), " name"), "("),
          Arguments(fn, sig), "declareArgument"),
        ") {\n")
printFuncOpDeclarationsNone(e, fn, sig) == e
printFuncOpDeclarations(e, fn, sig) ==
  IF declareVariablesAtTop
  THEN interleaveWithError(e, NotLiteral(Results(fn, sig)), "declareResult", "")
  ELSE e
printFuncOpBody(e, fn, sig) ==
  interleaveWithError(
    interleaveWithError(
      printFuncOpDeclarations(printFuncOpSignature(ScopeEnter(e), fn, sig), fn, sig),
      Blocks(fn, sig), "createLabel", ""),
    AllBlockArguments(fn, sig), "declareBlockArgument", "")

needsVariablesAtTopNever(sig) == FALSE
needsVariablesAtTop(sig) == Len(sig.cfg) > 1

\* A return of printOperation(func::FuncOp) destroys its Scope.
ScopeKeptOnFailure(r) == r
ScopeExitOnFailure(r) == IF r.ok THEN r ELSE ScopeExit(r)
printFuncOpEntry(e, fn, sig) ==
  IF ~declareVariablesAtTop /\ needsVariablesAtTop(sig) THEN Fail(e)
  ELSE ScopeExitOnFailure(printFuncOpBody(e, fn, sig))

\* The printer goes on to its nested operations unless its head failed.
Entered(frame, c) ==
  /\ stack' = IF failed' THEN stack ELSE Append(stack, frame)
  /\ cur' = IF failed' THEN cur ELSE c

printFuncOp ==
  /\ AtModule
  /\ \E sig \in Sigs :
       /\ emitted + 1 + Len(sig.res) <= MaxOps
       /\ Commit(printFuncOpEntry(E, emitted + 1, sig), "printFuncOp", FuncOp(sig),
                 Snap(E), {})
       /\ Entered(Frame("func", FuncOp(sig), FALSE, 0, Snap(E)),
                  Cursor(emitted + 1, sig))
       /\ hist' = [hist EXCEPT !.legal = @ /\ LegalSig(sig)]
  /\ emitted' = emitted + 1
  /\ UNCHANGED result

\* The label lines of a piece of output, in order, and the labels its goto
\* statements name.
RECURSIVE LabelLinesFrom(_, _)
LabelLinesFrom(out, i) ==
  IF i >= Len(out) THEN <<>>
  ELSE (IF out[i].p = "label" /\ out[i + 1] = Name(":\n", 0) THEN <<out[i]>> ELSE <<>>)
       \o LabelLinesFrom(out, i + 1)
LabelLines(out) == LabelLinesFrom(out, 1)
Gotos(out) == {out[i + 1] : i \in {j \in 1..(Len(out) - 1) : out[j] = Name("goto ", 0)}}

InFunc == stack # <<>> /\ Top(stack).k \in {"func", "for", "if"} /\ ~failed
AtBlock == InFunc /\ Top(stack).k = "func" /\ cur.block <= Len(cur.sig.cfg)
HasPredecessorsUnlessEntry(b) == b > 1
HasPredecessors(b) ==
  \E p \in 1..Len(cur.sig.cfg) : b \in Range(cur.sig.cfg[p].succ)

\* The head of an iteration of the loop over the blocks.
emitBlockLabel ==
  /\ AtBlock
  /\ cur.label
  /\ Commit(IF HasPredecessors(cur.block) THEN emitLabel(E, Blk(cur.fn, cur.block))
            ELSE E,
            "emitLabel", NoOp, NoSnap, {})
  /\ cur' = [cur EXCEPT !.label = FALSE, !.lines = @ \o LabelLines(os')]
  /\ UNCHANGED <<stack, result, emitted, hist>>

\* printOperation(func::FuncOp) returns, after its last block or after a
\* failure: ~Scope runs and emitOperation ends.
printFuncOpReturn ==
  /\ stack # <<>>
  /\ Top(stack).k = "func"
  /\ failed \/ cur.block > Len(cur.sig.cfg)
  /\ Commit(emitOperationTail(ScopeExit(Write(Status, "}\n")), Top(stack).op,
                              Top(stack).ts),
            "printFuncOpReturn", Top(stack).op, Top(stack).snap,
            Visible(valueMapper) \ {b.key : b \in Top(stack).snap.values})
  /\ stack' = Pop(stack)
  /\ cur' = NoCur
  /\ UNCHANGED <<result, emitted, hist>>

\* ---------------------------------------------- the operations of a body
Depth == Len(stack) - 2

\* An operation that defines n results can be emitted next: the operations
\* left after it suffice to define the remaining results.
CanDispatch(n) ==
  /\ InFunc
  /\ ~cur.label
  /\ cur.block <= Len(cur.sig.cfg)
  /\ emitted + 1 + (Len(cur.sig.res) - cur.nres - n) <= MaxOps

\* The trailingSemicolon the enclosing printer passes to emitOperation.
trailingSemicolonAt(frame, op) ==
  IF frame.k = "func"
  THEN op.kind \notin {"cf.cond_br", "emitc.for", "emitc.if", "emitc.literal"}
  ELSE TRUE

\* emitOperation on an operation that has no nested operations.
Dispatch(act, op) ==
  /\ Commit(emitOperation(E, op, trailingSemicolonAt(Top(stack), op)), act, op,
            NoSnap, {})
  /\ cur' = [cur EXCEPT !.nres = @ + Len(op.results)]
  /\ emitted' = emitted + 1
  /\ hist' = Saw(op, FALSE)
  /\ UNCHANGED <<stack, result>>

ConstantAttrs == {Attr("int", 0), Attr("opaque", 0), Attr("unit", 0)}
emitConstantOp ==
  /\ CanDispatch(1)
  /\ CanDefine(1, {"var", "res"})
  /\ \E a \in ConstantAttrs :
       Dispatch("printConstantOp",
                [Op(IF ResVal(cur.nres + 1).k = "var" THEN "emitc.variable"
                    ELSE "emitc.constant", <<>>, NextResults(1))
                   EXCEPT !.attr = a])

emitLiteralOp ==
  /\ CanDispatch(1)
  /\ CanDefine(1, {"lit"})
  /\ Dispatch("emitLiteralOp", Op("emitc.literal", <<>>, NextResults(1)))

emitBinaryOp ==
  /\ CanDispatch(1)
  /\ CanDefine(1, {"res"})
  /\ \E operands \in [1..2 -> Operands] :
       Dispatch("printBinaryOperation", Op("emitc.add", operands, NextResults(1)))

emitUnaryOp ==
  /\ CanDispatch(1)
  /\ CanDefine(1, {"res"})
  /\ \E kind \in {"emitc.apply", "emitc.cast"}, operand \in Operands :
       Dispatch("printUnaryOp", Op(kind, <<operand>>, NextResults(1)))

emitAssignOp ==
  /\ CanDispatch(0)
  /\ \E var \in Variables, value \in Operands :
       Dispatch("printAssignOp", Op("emitc.assign", <<var, value>>, <<>>))

emitFuncCallOp ==
  /\ \E n \in 0..2 :
       /\ CanDispatch(n)
       /\ CanDefine(n, {"res"})
       /\ \E operands \in OperandSeqs(IF n = 0 THEN 2 ELSE 1) :
            Dispatch("printFuncCallOp", Op("func.call", operands, NextResults(n)))

\* The args and template_args attributes of an emitc.call.
CallAttrs ==
  { <<a, <<NoAttr>>>> :
      a \in {<<NoAttr>>, <<Attr("index", -1)>>, <<Attr("index", 0)>>,
             <<Attr("index", 1)>>, <<Attr("int", 0)>>, <<Attr("unit", 0)>>} }
  \cup { <<<<NoAttr>>, <<Attr("index", 0)>>>>, <<<<NoAttr>>, <<Attr("int", 0)>>>> }
emitEmitCCallOp ==
  /\ CanDispatch(0)
  /\ \E operands \in OperandSeqs(1), attrs \in CallAttrs :
       Dispatch("printEmitCCallOp",
                [Op("emitc.call", operands, <<>>)
                   EXCEPT !.args = attrs[1], !.targs = attrs[2]])

\* An operation the TypeSwitch has no case for.
emitUnknownOp ==
  /\ CanDispatch(0)
  /\ Dispatch("emitOperation", Op("test.op", <<>>, <<>>))

\* A func.return that does not end its block.
emitReturnOpInBlock ==
  /\ CanDispatch(0)
  /\ \E operand \in Operands :
       Dispatch("printReturnOp", Op("func.return", <<operand>>, <<>>))

\* ------------------------------------------------------------ terminators
\* The terminator of the current block comes next; the last block ends
\* after every result of the function has been defined.
AtTerminator(kind) ==
  /\ AtBlock
  /\ ~cur.label
  /\ cur.sig.cfg[cur.block].term = kind
  /\ cur.block = Len(cur.sig.cfg) => cur.nres = Len(cur.sig.res)

\* for (Block &block : blocks): the block after block b.
NextBlockSkipsOne(b) == b + 2
NextBlock(b) == b + 1

Terminate(act, op) ==
  /\ Commit(emitOperation(E, op, trailingSemicolonAt(Top(stack), op)), act, op,
            NoSnap, {})
  /\ cur' = [cur EXCEPT !.block = NextBlock(@),
                        !.label = (cur.block < Len(cur.sig.cfg)),
                        !.gotos = @ \cup Gotos(os')]
  /\ hist' = Saw(op, TRUE)
  /\ UNCHANGED <<stack, result, emitted>>

Successors == cur.sig.cfg[cur.block].succ
SuccOperands(i) == [1..cur.sig.cfg[Successors[i]].nargs -> Operands]

emitReturnOp ==
  /\ AtTerminator("func.return")
  /\ \E operands \in [1..Len(cur.sig.ret) -> Operands] :
       Terminate("printReturnOp", Op("func.return", operands, <<>>))

emitBranchOp ==
  /\ AtTerminator("cf.br")
  /\ \E tops \in SuccOperands(1) :
       Terminate("printBranchOp",
                 [Op("cf.br", <<>>, <<>>) EXCEPT !.succ = Successors, !.tops = tops])

emitCondBranchOp ==
  /\ AtTerminator("cf.cond_br")
  /\ \E cond \in Operands, tops \in SuccOperands(1), fops \in SuccOperands(2) :
       Terminate("printCondBranchOp",
                 [Op("cf.cond_br", <<cond>>, <<>>)
                    EXCEPT !.succ = Successors, !.tops = tops, !.fops = fops])

\* ----------------------------------------------------- structured regions
\* The values defined inside the region whose printer is returning: the
\* results of its operations and, for a loop, the induction variable.
BodyValues(frame) ==
  {ResVal(i) : i \in (frame.base + 1)..cur.nres}
    \cup (IF frame.k = "for" THEN {frame.op.iv} ELSE {})

\* printOperation(emitc::ForOp) up to its loop over the operations of the
\* body; the three bounds are one operand here.
printForOp ==
  /\ CanDispatch(0)
  /\ Depth < MaxDepth
  /\ \E bound \in Operands :
       /\ Commit(printOperation(
                   E, [Op("emitc.for", <<bound, bound, bound>>, <<>>)
                         EXCEPT !.iv = InductionVar(cur.nfor + 1)]),
                 "printForOp",
                 [Op("emitc.for", <<bound, bound, bound>>, <<>>)
                    EXCEPT !.iv = InductionVar(cur.nfor + 1)],
                 NoSnap, {})
       /\ Entered(Frame("for",
                        [Op("emitc.for", <<bound, bound, bound>>, <<>>)
                           EXCEPT !.iv = InductionVar(cur.nfor + 1)],
                        trailingSemicolonAt(Top(stack), Op("emitc.for", <<>>, <<>>)),
                        cur.nres, Snap(E)),
                  [cur EXCEPT !.nfor = @ + 1])
       /\ hist' = Saw(Op("emitc.for", <<bound, bound, bound>>, <<>>), FALSE)
  /\ emitted' = emitted + 1
  /\ UNCHANGED result

\* The last operation of a region is not emitted, whatever it is; after a
\* failure the loop over the region has not reached it.
SkipLast ==
  IF failed THEN hist' = hist
  ELSE \E kind \in RegionLastKinds : hist' = SawLast(kind)

\* The loop over the body stopped before the last operation, or an operation
\* of the body failed: printOperation(emitc::ForOp) returns and emitOperation
\* ends.
printForOpReturn ==
  /\ stack # <<>>
  /\ Top(stack).k = "for"
  /\ Commit(emitOperationTail(Write(Status, "}"), Top(stack).op, Top(stack).ts),
            "printForOpReturn", Top(stack).op, Top(stack).snap,
            BodyValues(Top(stack)))
  /\ SkipLast
  /\ stack' = Pop(stack)
  /\ UNCHANGED <<result, cur, emitted>>

\* printOperation(emitc::IfOp) up to its then region; regions is 2 when the
\* else region is not empty.
printIfOp ==
  /\ CanDispatch(0)
  /\ Depth < MaxDepth
  /\ \E cond \in Operands, regions \in 1..2 :
       /\ Commit(printOperation(E, [Op("emitc.if", <<cond>>, <<>>)
                                      EXCEPT !.n = regions]),
                 "printIfOp", [Op("emitc.if", <<cond>>, <<>>) EXCEPT !.n = regions],
                 NoSnap, {})
       /\ Entered(Frame("if", [Op("emitc.if", <<cond>>, <<>>) EXCEPT !.n = regions],
                        trailingSemicolonAt(Top(stack), Op("emitc.if", <<>>, <<>>)),
                        cur.nres, Snap(E)),
                  cur)
       /\ hist' = Saw(Op("emitc.if", <<cond>>, <<>>), FALSE)
  /\ emitted' = emitted + 1
  /\ UNCHANGED result

\* The then region ended and the else region is not empty.
printIfOpElse ==
  /\ InFunc
  /\ Top(stack).k = "if"
  /\ Top(stack).part = "then"
  /\ Top(stack).op.n = 2
  /\ Commit(Write(Write(E, "}"), " else {\n"), "printIfOpElse", Top(stack).op,
            NoSnap, {})
  /\ SkipLast
  /\ stack' = [stack EXCEPT ![Len(stack)].part = "else"]
  /\ UNCHANGED <<result, cur, emitted>>

\* The last region ended, or an operation of a region failed:
\* printOperation(emitc::IfOp) returns and emitOperation ends.
printIfOpReturn ==
  /\ stack # <<>>
  /\ Top(stack).k = "if"
  /\ failed \/ Top(stack).part = "else" \/ Top(stack).op.n = 1
  /\ Commit(emitOperationTail(Write(Status, "}"), Top(stack).op, Top(stack).ts),
            "printIfOpReturn", Top(stack).op, Top(stack).snap,
            BodyValues(Top(stack)))
  /\ SkipLast
  /\ stack' = Pop(stack)
  /\ UNCHANGED <<result, cur, emitted>>

\* The assert of emitAllExceptLast in a build with assertions: the last
\* operation of a region of an emitc.if is not an emitc.yield and the process
\* is aborted; translateToCpp does not return.
emitAllExceptLastAborts ==
  /\ InFunc
  /\ Top(stack).k = "if"
  /\ hist' = SawLast("test.op")
  /\ result' = "aborted"
  /\ stack' = <<>>
  /\ os' = <<>>
  /\ calls' = <<>>
  /\ last' = [NoLast EXCEPT !.act = "abort", !.op = Top(stack).op, !.ok = FALSE]
  /\ UNCHANGED <<declareVariablesAtTop, valueMapper, blockMapper,
                 valueInScopeCount, labelInScopeCount, failed, cur, emitted>>

\* ------------------------------------------------------- the specification
Next ==
  \/ translateToCpp
  \/ emitTopLevelOperation
  \/ printModuleOpReturn
  \/ printFuncOp
  \/ emitBlockLabel
  \/ printFuncOpReturn
  \/ emitConstantOp
  \/ emitLiteralOp
  \/ emitBinaryOp
  \/ emitUnaryOp
  \/ emitAssignOp
  \/ emitFuncCallOp
  \/ emitEmitCCallOp
  \/ emitUnknownOp
  \/ emitReturnOpInBlock
  \/ emitReturnOp
  \/ emitBranchOp
  \/ emitCondBranchOp
  \/ printForOp
  \/ printForOpReturn
  \/ printIfOp
  \/ printIfOpElse
  \/ printIfOpReturn
  \/ emitAllExceptLastAborts

Spec == Init /\ [][Next]_vars

\* ------------------------------------------------------------- properties
Done == result \in {"success", "failure"}
Inline == ~declareVariablesAtTop
ReturnedOne == last.act = "printReturnOp" /\ Len(last.op.operands) = 1
RegionReturned == last.act \in {"printForOpReturn", "printIfOpReturn"}
FuncReturned ==
  last.act = "printFuncOpReturn" \/ (last.act = "printFuncOp" /\ ~last.ok)

\* C1, as the specification states it: under either declaration policy, a
\* module in which an operation has a non-literal operand whose defining
\* operation is emitted later in the same function makes translateToCpp
\* return failure.
C1_UseBeforeDefFails == (Done /\ hist.ubd) => result = "failure"

\* C1, amended: under the inline policy, a module in which the printer of an
\* operation names a non-literal operand whose defining operation is emitted
\* later in the same function makes translateToCpp return failure.
C1_InlineUseBeforeDefFails == (Done /\ Inline /\ hist.pbd) => result = "failure"

\* C1's case: an inline translation that met such an operation has returned.
C1_Witness == Done /\ Inline /\ hist.pbd /\ result = "failure"

\* C2: a module whose operations are all of supported kinds with supported
\* types and attributes, ordered def before use, with single-block functions
\* under the inline policy, makes translateToCpp return success.
C2_LegalModuleSucceeds == (Done /\ hist.legal) => result = "success"

\* C3: a return with exactly one operand whose value had no visible binding
\* when the return was emitted fails, and creates no binding for it.
C3_ReturnOfUnboundFails ==
  (ReturnedOne /\ last.op.operands[1] \notin last.bound)
    => (~last.ok /\ ~hasValueInScope(E, last.op.operands[1]))

\* C4: for a literal value getOrCreateName returns the literal text, inserts
\* no binding and does not advance the counter, and an operation of a module
\* that is otherwise in order does not fail when it has a literal operand.
C4_LiteralBypassesAllocation ==
  /\ \A i \in 1..Len(calls) :
       (~calls[i].blk /\ calls[i].key.k = "lit")
         => /\ calls[i].name = Name("lit", calls[i].key.i)
            /\ ~calls[i].counted
            /\ ~calls[i].touched
  /\ (hist.legal /\ \E v \in AllOperands(last.op) : v.k = "lit") => last.ok

\* C5, as the specification states it: while the translation runs the
\* counters never go back; after a scope exits, the enclosing scope
\* continues from the value reached inside.
C5_CountersNeverReset ==
  [][result' = "none"
       => /\ Top(valueInScopeCount') >= Top(valueInScopeCount)
          /\ Top(labelInScopeCount') >= Top(labelInScopeCount)]_vars

\* C5, amended: a counter only grows while its scope is open, a new scope
\* starts from the counter of the enclosing scope, and the exit of a scope
\* discards its counter: the enclosing scope continues from its own value.
CounterStep(c, d) ==
  /\ Len(d) = Len(c) => (Pop(d) = Pop(c) /\ Top(d) >= Top(c))
  /\ Len(d) > Len(c) => (SubSeq(d, 1, Len(c)) = c /\ Top(d) >= Top(c))
  /\ Len(d) < Len(c) => d = SubSeq(c, 1, Len(d))
C5_CountersRestoredOnExit ==
  [][/\ CounterStep(valueInScopeCount, valueInScopeCount')
     /\ CounterStep(labelInScopeCount, labelInScopeCount')]_vars

\* C5's case: a function that bound values has returned with success and
\* the value counter is back at the value of the module scope.
C5_Witness ==
  /\ last.act = "printFuncOpReturn"
  /\ last.ok
  /\ last.body # {}
  /\ Top(valueInScopeCount) = 0

\* C6: any two distinct values with a visible binding have different names,
\* and any two distinct blocks with a visible label have different labels.
C6_VisibleNamesDistinct ==
  /\ \A a, b \in Bindings(valueMapper) : a.key # b.key => a.n # b.n
  /\ \A a, b \in Bindings(blockMapper) : a.key # b.key => a.n # b.n

\* C6's case: a value bound in the module scope and a value bound in the
\* scope of a function are both visible.
C6_Witness ==
  /\ Len(valueMapper) = 2
  /\ valueMapper[1] # <<>>
  /\ valueMapper[2] # <<>>

\* C7: a getOrCreateName call for a value (a block) whose binding is visible
\* returns the name it has, does not move the counter and changes no
\* binding.
C7_BoundNameIsStable ==
  \A i \in 1..Len(calls) :
    calls[i].had
      => /\ calls[i].name.n = calls[i].before
         /\ calls[i].name.p = (IF calls[i].blk THEN "label" ELSE "v")
         /\ ~calls[i].counted
         /\ ~calls[i].touched

\* C7's case: one step called getOrCreateName twice for one value, the
\* first call bound it.
C7_Witness ==
  \E i, j \in 1..Len(calls) :
    /\ i < j
    /\ calls[i].key = calls[j].key
    /\ ~calls[i].had
    /\ calls[j].had

\* C8: after the printer of a loop or of a conditional has returned, no
\* value defined inside its regions (a result of an operation of the body
\* or the induction variable) has a visible binding.
C8_BodyValuesNotVisible ==
  RegionReturned => \A v \in last.body : ~hasValueInScope(E, v)

\* C9: when the printer of a module or of a function returns, with success
\* or with failure, the visible bindings and the depth of both counter
\* stacks are what they were before the printer began.
C9_ScopeRestoredOnReturn ==
  (FuncReturned \/ last.act = "printModuleOpReturn") => Snap(E) = last.snap

\* C9's case: a function that bound values has returned with failure.
C9_Witness ==
  /\ last.act = "printFuncOpReturn"
  /\ ~last.ok
  /\ last.body # {}

\* C10: the printer of a function with more than one block fails under the
\* inline policy; such a function is emitted with success only under the
\* declare-at-top policy.
C10_MultiBlockNeedsDeclareAtTop ==
  (last.op.kind = "func.func" /\ last.op.n > 1 /\ Inline) => ~last.ok

\* C10's case: a function with more than one block met the inline policy.
C10_Witness ==
  /\ last.act = "printFuncOp"
  /\ last.op.n > 1
  /\ Inline

\* ------------------------------------------------- the text that was written
\* A declaration in the text is a type, a blank and the name of a value;
\* Declarations(out, n) counts the declarations of the name n in out.
TypeWords == {"bool", "uint_t", "int_t", "float", "double", "size_t", "opaque"}
DeclarationAt(out, i) ==
  /\ i + 2 <= Len(out)
  /\ out[i].p \in TypeWords
  /\ out[i + 1] = Name(" ", 0)
  /\ out[i + 2].p = "v"
Declarations(out, n) ==
  Cardinality({i \in 1..Len(out) : DeclarationAt(out, i) /\ out[i + 2].n = n})
BoundName(v) == Name("v", Lookup(valueMapper, v))
InBody ==
  /\ stack # <<>>
  /\ Top(stack).k \in {"func", "for", "if"}
  /\ last.act # "printFuncOp"

\* C11: under the declare-at-top policy, when the printer of a function
\* reaches the first operation of the body every result of an operation of
\* the function that is not a literal and every argument of a block other
\* than the entry block has been declared exactly once; every step of the
\* body after that declares no result of an operation, and an operation with
\* one result that writes anything begins with the assignment to its result.
C11_DeclaredAtTopOnce ==
  declareVariablesAtTop =>
    /\ (last.act = "printFuncOp" /\ last.ok)
         => \A v \in Range(NotLiteral(Results(cur.fn, cur.sig)))
                       \cup Range(AllBlockArguments(cur.fn, cur.sig)) :
              /\ hasValueInScope(E, v)
              /\ Declarations(os, BoundName(v).n) = 1
    /\ InBody
         => /\ \A v \in Range(NotLiteral(Results(cur.fn, cur.sig))) :
                 /\ hasValueInScope(E, v)
                 /\ Declarations(os, BoundName(v).n) = 0
            /\ (last.ok /\ Len(last.op.results) = 1 /\ os # <<>>
                  /\ last.op.kind # "emitc.literal"
                  /\ ~(last.op.kind \in ConstantKinds /\ EmptyOpaque(last.op.attr)))
                 => /\ os[1] = BoundName(last.op.results[1])
                    /\ os[2] = Name(" = ", 0)

\* C11's case: under the declare-at-top policy an operation of a body that
\* defines a result has been emitted.
C11_Witness ==
  /\ declareVariablesAtTop
  /\ InBody
  /\ last.act = "printBinaryOperation"
  /\ last.ok

\* The text of the declaration of a bound value as a statement, and of the
\* packed assignment to a list of bound values.
TypeText(ty) == emitType(Emitter(<<>>, <<>>, <<0>>, <<0>>), ty).out
DeclarationText(v) == TypeText(v.ty) \o <<Name(" ", 0), BoundName(v), Name(";\n", 0)>>
TieText(vals) ==
  <<Name("std::tie(", 0)>>
    \o [i \in 1..(2 * Len(vals) - 1) |->
          IF i % 2 = 1 THEN BoundName(vals[(i + 1) \div 2]) ELSE Name(", ", 0)]
    \o <<Name(") = ", 0)>>
AssignPrefixText(vals) ==
  (IF Inline THEN Flat([i \in 1..Len(vals) |-> DeclarationText(vals[i])]) ELSE <<>>)
    \o TieText(vals)

\* C12: the text of an operation with more than one result that was emitted
\* with success begins, under the inline policy, with one declaration per
\* result in result order followed by one std::tie assignment naming the
\* results in order, and under the declare-at-top policy with the std::tie
\* assignment alone; no result is declared anywhere else in the text.
C12_PackedAssignPrefix ==
  (Len(last.op.results) > 1 /\ last.ok)
    => /\ Len(os) >= Len(AssignPrefixText(last.op.results))
       /\ SubSeq(os, 1, Len(AssignPrefixText(last.op.results)))
            = AssignPrefixText(last.op.results)
       /\ \A i \in 1..Len(last.op.results) :
            Declarations(os, BoundName(last.op.results[i]).n)
              = (IF Inline THEN 1 ELSE 0)

\* C12's case: a call with two results has been emitted under the inline
\* policy.
C12_Witness ==
  /\ Inline
  /\ last.act = "printFuncCallOp"
  /\ Len(last.op.results) = 2
  /\ last.ok

\* C13: under the inline policy an operation that defines results declares
\* each of them exactly once when it is emitted with success, and a result
\* that had a visible binding before its defining operation was emitted
\* makes the operation fail without a declaration of that result.
C13_InlineDeclaredOnce ==
  (Inline /\ last.op.kind # "emitc.literal")
    => \A i \in 1..Len(last.op.results) :
         /\ last.ok => Declarations(os, BoundName(last.op.results[i]).n) = 1
         /\ last.op.results[i] \in last.bound
              => /\ ~last.ok
                 /\ Declarations(os, BoundName(last.op.results[i]).n) = 0

\* C13's case: under the inline policy the defining operation of a result
\* that an earlier use had bound has been emitted.
C13_Witness ==
  /\ Inline
  /\ last.op.results # <<>>
  /\ last.op.results[1] \in last.bound
  /\ ~last.ok

\* A constant or variable operation whose value is the empty opaque
\* attribute was emitted.
EmptyConstantEmitted ==
  last.op.kind \in ConstantKinds /\ last.op.attr = Attr("opaque", 0)

AssignmentAt(out, i) ==
  /\ i + 3 <= Len(out)
  /\ out[i].p = "v"
  /\ out[i + 1] = Name(" = ", 0)
  /\ out[i + 2].p \in {"v", "lit"}
  /\ out[i + 3] = Name(";\n", 0)

\* The C++ variables after the assignments of the text have been executed
\* in order, from a store in which every variable holds its own initial
\* value; a literal evaluates to itself.
NamesIn(out) == {out[i] : i \in {j \in 1..Len(out) : out[j].p = "v"}}
Eval(store, t) == IF t \in DOMAIN store THEN store[t] ELSE t
RECURSIVE RunFrom(_, _, _)
RunFrom(out, i, store) ==
  IF i > Len(out) THEN store
  ELSE IF AssignmentAt(out, i)
       THEN RunFrom(out, i + 4, [store EXCEPT ![out[i]] = Eval(store, out[i + 2])])
       ELSE RunFrom(out, i + 1, store)
Run(out) == RunFrom(out, 1, [t \in NamesIn(out) |-> t])

\* The two arms of the text of a conditional branch.
ElseAt(out) == CHOOSE i \in 1..Len(out) : out[i] = Name("} else {\n", 0)
TrueArm(out) == SubSeq(out, 1, ElseAt(out) - 1)
FalseArm(out) == SubSeq(out, ElseAt(out) + 1, Len(out))

\* After the text of an arm has run, every argument of the successor holds
\* the value its operand had before the branch.
NameOf(v) == IF v.k = "lit" THEN Name("lit", v.i) ELSE BoundName(v)
ArmPasses(out, operands, successor) ==
  \A j \in 1..Len(operands) :
    Run(out)[BoundName(SuccArguments(successor)[j])] = NameOf(operands[j])

\* C15: the assignments emitted for a branch, executed in order, leave every
\* argument of the target block holding the value its operand had before the
\* branch, also when the operands are arguments of the target block; stated
\* for the branches of a module whose operations are all in order.
C15_BranchPassesArguments ==
  /\ (hist.legal /\ last.ok /\ last.op.kind = "cf.br")
       => ArmPasses(os, last.op.tops, last.op.succ[1])
  /\ (hist.legal /\ last.ok /\ last.op.kind = "cf.cond_br")
       => /\ ArmPasses(TrueArm(os), last.op.tops, last.op.succ[1])
          /\ ArmPasses(FalseArm(os), last.op.fops, last.op.succ[2])

\* The steps in which a printer that emits nested operations returns.
ReturnActs ==
  {"printForOpReturn", "printIfOpReturn", "printFuncOpReturn", "printModuleOpReturn"}

\* C16: once the emission of an operation, a type or an attribute has
\* failed, every further step is the return of an enclosing printer: no
\* operation is dispatched, nothing is written, the failure is handed on to
\* each caller, and translateToCpp returns failure.
C16_FailFast ==
  [][failed
       => /\ failed'
          /\ last'.act \in ReturnActs
          /\ ~last'.ok
          /\ Len(stack') = Len(stack) - 1
          /\ emitted' = emitted
          /\ hist' = hist
          /\ os' = <<>>
          /\ result' = (IF stack' = <<>> THEN "failure" ELSE "none")]_vars

\* C16's case: a failure inside the region of a loop or of a conditional
\* has been handed on to the printer of the function.
C16_Witness ==
  /\ failed
  /\ RegionReturned
  /\ stack # <<>>
  /\ Top(stack).k = "func"

\* C17: a module that holds an operation of a kind the emitter has no
\* printer for, at the top level, in a block of a function or at any place
\* of the region of a loop or of a conditional, the last place included,
\* makes translateToCpp return failure.
C17_UnsupportedNeverSkipped == (Done /\ hist.unsupported) => result = "failure"

IndexArgs ==
  {[attr |-> a, open |-> "("] : a \in {b \in Range(last.op.args) : b.k = "index"}}
    \cup {[attr |-> a, open |-> "<"] :
            a \in {b \in Range(last.op.targs) : b.k = "index"}}
Selects(a) == a.i >= 0 /\ a.i < Len(last.op.operands)

\* C19: an index attribute with value i in the args or the template args of
\* an emitc.call stands for operand i.  The call fails when i is negative or
\* not below the number of operands, and when operand i had no visible
\* binding; otherwise the name bound to operand i is written in the
\* attribute's place and i is not written as a literal.
C19_IndexAttrNamesOperand ==
  last.op.kind = "emitc.call" =>
    \A x \in IndexArgs :
      IF Selects(x.attr) /\ last.op.operands[x.attr.i + 1] \in last.bound
      THEN /\ last.ok
           /\ \E i \in 1..(Len(os) - 1) :
                /\ os[i] = Name(x.open, 0)
                /\ os[i + 1] = BoundName(last.op.operands[x.attr.i + 1])
           /\ \A i \in 1..Len(os) : os[i].p # "int-literal"
      ELSE ~last.ok

\* C19's case: a call whose args attribute selects a bound operand has been
\* emitted.
C19_Witness ==
  /\ last.op.kind = "emitc.call"
  /\ last.op.args = <<Attr("index", 0)>>
  /\ last.op.operands # <<>>
  /\ last.ok

\* ------------------------------------------------ the type printer by itself
\* emitType applied to one integer type: the type is drawn by the initial
\* state (it is held as the type of the one result of last.op) and the step
\* applies emitType to it with a fresh emitter.
Signednesses == {"signless", "signed", "unsigned"}
IntegerTypes ==
  {[k |-> "int", w |-> w, s |-> s] : w \in 1..MaxWidth, s \in Signednesses}
TypeInit ==
  /\ declareVariablesAtTop = FALSE
  /\ valueMapper = <<>>
  /\ blockMapper = <<>>
  /\ valueInScopeCount = <<0>>
  /\ labelInScopeCount = <<0>>
  /\ os = <<>>
  /\ stack = <<>>
  /\ failed = FALSE
  /\ result = "none"
  /\ cur = NoCur
  /\ emitted = 0
  /\ \E ty \in IntegerTypes :
       last = [NoLast EXCEPT !.op = Op("none", <<>>, <<Val(0, "res", 1, ty)>>)]
  /\ calls = <<>>
  /\ hist = [ubd |-> FALSE, pbd |-> FALSE, legal |-> TRUE, unsupported |-> FALSE]
emitTypeOnce ==
  /\ last.act = "none"
  /\ Commit(emitType(E, last.op.results[1].ty), "emitType", last.op, NoSnap, {})
  /\ UNCHANGED <<stack, result, cur, emitted, hist>>
TypeNext == emitTypeOnce
TypeSpec == TypeInit /\ [][TypeNext]_vars

\* emitType has been applied to the type ty.
Spelled(ty) == last.op.results[1].ty = ty /\ last.act = "emitType"

\* C20: emitType spells an integer type of width 8, 16, 32 or 64 as
\* uint<width>_t when it is unsigned and as int<width>_t when it is signed
\* or signless, two such types that differ in width or in being unsigned
\* have different spellings, width 1 is spelled bool, and for every other
\* width emitType fails and writes nothing.
C20_IntegerSpelling ==
  /\ \A ty \in IntegerTypes :
       Spelled(ty) =>
         CASE ty.w \in {8, 16, 32, 64} ->
                /\ last.ok
                /\ os = <<Name(IF ty.s = "unsigned" THEN "uint_t" ELSE "int_t",
                               ty.w)>>
           [] ty.w = 1 -> last.ok /\ os = <<Name("bool", 0)>>
           [] OTHER -> ~last.ok /\ os = <<>>
  /\ \A a, b \in {ty \in IntegerTypes : ty.w \in {8, 16, 32, 64}} :
       TypeText(a) = TypeText(b)
         => (a.w = b.w /\ (a.s = "unsigned") = (b.s = "unsigned"))

\* C20's case: emitType has been applied to the unsigned type of width 64.
C20_Witness ==
  /\ Spelled([k |-> "int", w |-> 64, s |-> "unsigned"])
  /\ last.ok

\* ------------------------------------------------------ a second translation
\* CppEmitter::CppEmitter: the members of a freshly constructed emitter.
FreshEmitterCountsFromOne == Emitter(<<>>, <<>>, <<1>>, <<1>>)
FreshEmitter == Emitter(<<>>, <<>>, <<0>>, <<0>>)

\* translateToCpp is called again, with the same policy, after a translation
\* has returned: it constructs a new emitter and nothing of the emitter of
\* the translation before is read.
translateToCppAgain ==
  /\ Done
  /\ stack = <<>>
  /\ valueMapper' = FreshEmitter.vm
  /\ blockMapper' = FreshEmitter.bm
  /\ valueInScopeCount' = FreshEmitter.vc
  /\ labelInScopeCount' = FreshEmitter.lc
  /\ os' = <<>>
  /\ calls' = <<>>
  /\ failed' = FALSE
  /\ result' = "none"
  /\ cur' = NoCur
  /\ emitted' = 0
  /\ last' = [NoLast EXCEPT !.act = "CppEmitter"]
  /\ hist' = [ubd |-> FALSE, pbd |-> FALSE, legal |-> TRUE, unsupported |-> FALSE]
  /\ UNCHANGED <<declareVariablesAtTop, stack>>
AgainNext == Next \/ translateToCppAgain
AgainSpec == Init /\ [][AgainNext]_vars

\* The steps that emit one operation without nested operations, and what
\* such a step does when it is the printer's result r.
OperationActs ==
  {"emitOperation", "printConstantOp", "emitLiteralOp", "printBinaryOperation",
   "printUnaryOp", "printAssignOp", "printFuncCallOp", "printEmitCCallOp",
   "printReturnOp", "printBranchOp", "printCondBranchOp"}
StepIs(r) ==
  /\ valueMapper' = r.vm
  /\ blockMapper' = r.bm
  /\ valueInScopeCount' = r.vc
  /\ labelInScopeCount' = r.lc
  /\ os' = r.out
  /\ failed' = ~r.ok
SemicolonHere(op) ==
  IF Top(stack).k = "module" THEN FALSE ELSE trailingSemicolonAt(Top(stack), op)

OperationEnded ==
  /\ last.act \in OperationActs \cup {"printForOpReturn", "printIfOpReturn"}
  /\ last.ok
  /\ stack # <<>>
  /\ Top(stack).k # "module"
EndsWithSemicolon(out) == out # <<>> /\ out[Len(out)] = Name(";\n", 0)
NoSemicolonKinds == {"emitc.if", "emitc.for", "cf.cond_br", "emitc.literal"}

\* C22: the text of an operation emitted inside a function ends with the
\* statement terminator exactly when the operation is not a conditional, a
\* loop, a conditional branch or a literal, in a block of the function and
\* in the body of a loop or of a conditional alike.
C22_SemicolonByKind ==
  OperationEnded
    => (EndsWithSemicolon(os) <=> last.op.kind \notin NoSemicolonKinds)

\* The printer of a function is emitting its blocks.
InFunction == stack # <<>> /\ Top(stack).k \in {"func", "for", "if"}

\* C23: when the printer of a function reaches its body every block of the
\* function has a label, the labels stay bound while the body is emitted,
\* and a branch or a conditional branch emitted in the function never fails
\* for want of the label of a successor: it does not fail at all.
C23_LabelsBeforeBody ==
  /\ InFunction
       => \A b \in 1..Len(cur.sig.cfg) : hasBlockLabel(E, Blk(cur.fn, b))
  /\ last.op.kind \in {"cf.br", "cf.cond_br"} => last.ok

\* C23's case: a conditional branch, to a block before it and to a block
\* after it, has been emitted.
C23_Witness ==
  /\ last.op.kind = "cf.cond_br"
  /\ last.op.succ = <<2, 3>>
  /\ cur.block = 3
  /\ last.ok

\* Every block of the function has been emitted and its printer has not
\* returned yet.
FunctionEmitted ==
  /\ stack # <<>>
  /\ Top(stack).k = "func"
  /\ ~failed
  /\ cur.block > Len(cur.sig.cfg)
LabelOf(b) == Name("label", Lookup(blockMapper, Blk(cur.fn, b)))
Times(seq, x) == Cardinality({i \in 1..Len(seq) : seq[i] = x})

\* C24: when every block of a function has been emitted without a failure,
\* the text of the function holds the label line of a block once if the block
\* has a predecessor and not at all otherwise, the blocks have different
\* labels, and the labels named by the goto statements of the function are
\* exactly the labels that have a label line.
C24_LabelLinesMatchGotos ==
  FunctionEmitted
    => /\ \A b \in 1..Len(cur.sig.cfg) :
            Times(cur.lines, LabelOf(b)) = (IF HasPredecessors(b) THEN 1 ELSE 0)
       /\ \A b, c \in 1..Len(cur.sig.cfg) : LabelOf(b) = LabelOf(c) => b = c
       /\ Len(cur.lines)
            = Cardinality({b \in 1..Len(cur.sig.cfg) : HasPredecessors(b)})
       /\ cur.gotos = Range(cur.lines)

\* C24's case: a function of three blocks has been emitted, with two label
\* lines and goto statements to both.
C24_Witness ==
  /\ FunctionEmitted
  /\ Len(cur.sig.cfg) = 3
  /\ Len(cur.lines) = 2
  /\ Cardinality(cur.gotos) = 2

\* The Scope objects that are alive: printOperation(ModuleOp) and
\* printOperation(func::FuncOp) hold one each until they return, the printers
\* of emitc.for and emitc.if hold none.
OpenScopes ==
  Cardinality({i \in 1..Len(stack) : stack[i].k \in {"module", "func"}})

\* One step of a counter stack c to d, with m the bindings of the scopes
\* after the step: a scope that was opened starts from the top of c and has
\* counted the names bound in it since, the counters below the top are left
\* alone, and a top that stays does not decrease.
CounterStackStep(c, d, m) ==
  /\ Len(d) \in {Len(c) - 1, Len(c), Len(c) + 1}
  /\ Len(d) = Len(c) + 1 => (Pop(d) = c /\ Top(d) = Top(c) + Len(Top(m)))
  /\ Len(d) = Len(c) => (Pop(d) = Pop(c) /\ Top(d) >= Top(c))
  /\ Len(d) = Len(c) - 1 => d = Pop(c)

\* C25: while the process runs, the two counter stacks are non-empty and
\* both hold one counter more than there are open Scope objects; a Scope that
\* is opened starts both its counters from the tops it found, and the top of
\* a stack does not decrease while its Scope is open, nor do the counters
\* below it change.
C25_CounterStacksFollowScopes ==
  [][result' # "aborted"
       => /\ Len(valueInScopeCount') >= 1
          /\ Len(valueInScopeCount') = 1 + OpenScopes'
          /\ Len(labelInScopeCount') = 1 + OpenScopes'
          /\ CounterStackStep(valueInScopeCount, valueInScopeCount', valueMapper')
          /\ CounterStackStep(labelInScopeCount, labelInScopeCount', blockMapper')]_vars

\* C25's case: inside a loop of a function that follows a constant of the
\* module, three counters are stacked, the module scope has counted one name
\* and the function scope has gone on from it.
C25_Witness ==
  /\ stack # <<>>
  /\ Top(stack).k = "for"
  /\ Len(valueInScopeCount) = 3
  /\ Len(labelInScopeCount) = 3
  /\ valueInScopeCount[2] = 1
  /\ Top(valueInScopeCount) > 2
  /\ Top(labelInScopeCount) > 0

====
